---- MODULE Spec2Model ----
(***************************************************************************)
(* Model of telegraf_conf_generator.py: the MQTT topic validator and       *)
(* sanitizer of TelegrafConfigGenerator, and the CSV row loop of           *)
(* generate_telegraf_config that calls them.                               *)
(*                                                                         *)
(* A Python str is a sequence of characters; a character is a one-letter   *)
(* string, or one of the two named non-ASCII code points below.            *)
(***************************************************************************)
EXTENDS Integers, Sequences, FiniteSets, TLC

\* ------------------------------------------------------------------------
\* Bounds of the model
\* ------------------------------------------------------------------------

\* Longest freely enumerated middle part of a topic given to the two functions.
MaxBody == 2

\* Most data rows in a CSV file.
MaxRows == 3

\* ------------------------------------------------------------------------
\* Characters and the str methods the program uses
\* ------------------------------------------------------------------------

\* U+00E9 (2 bytes in UTF-8) and U+20AC (3 bytes in UTF-8).
EAcute == "U+00E9"
Euro == "U+20AC"

\* Bytes of one character under str.encode('utf-8').
Utf8Len(c) == IF c = EAcute THEN 2 ELSE IF c = Euro THEN 3 ELSE 1

RECURSIVE encode_len_range(_, _, _)
encode_len_range(s, lo, hi) ==
    IF lo > hi THEN 0
    ELSE IF lo = hi THEN Utf8Len(s[lo])
    ELSE LET mid == (lo + hi) \div 2
         IN  encode_len_range(s, lo, mid) + encode_len_range(s, mid + 1, hi)

\* len(s.encode('utf-8')): the bytes of the characters, summed.
encode_len(s) == encode_len_range(s, 1, Len(s))

\* s.startswith(p)
startswith(s, p) == Len(s) >= Len(p) /\ SubSeq(s, 1, Len(p)) = p

\* sub in s, for a one-character sub
contains(s, c) == \E i \in 1..Len(s) : s[i] = c

\* Where old occurs in s at or after position i.
occurrences(s, i, old) ==
    { j \in i..(Len(s) - Len(old) + 1) : SubSeq(s, j, j + Len(old) - 1) = old }

Min(S) == CHOOSE x \in S : \A y \in S : x <= y

RECURSIVE replace_from(_, _, _, _)
replace_from(s, i, old, new) ==
    LET hits == occurrences(s, i, old)
    IN  IF hits = {} THEN SubSeq(s, i, Len(s))
        ELSE LET j == Min(hits)
             IN  SubSeq(s, i, j - 1) \o new \o replace_from(s, j + Len(old), old, new)

\* s.replace(old, new), old not empty: every non-overlapping occurrence,
\* leftmost first.
replace(s, old, new) == replace_from(s, 1, old, new)

RECURSIVE split_range(_, _, _, _)
split_range(s, lo, hi, sep) ==
    IF lo > hi THEN << << >> >>
    ELSE IF lo = hi THEN (IF s[lo] = sep THEN << << >>, << >> >> ELSE << <<s[lo]>> >>)
    ELSE LET mid == (lo + hi) \div 2
             l == split_range(s, lo, mid, sep)
             r == split_range(s, mid + 1, hi, sep)
         IN  SubSeq(l, 1, Len(l) - 1) \o << l[Len(l)] \o r[1] >> \o SubSeq(r, 2, Len(r))

\* s.split(sep), for a one-character sep: the list of segments (the segments
\* of the two halves, the segment the cut falls in joined again).
split(s, sep) == split_range(s, 1, Len(s), sep)

\* ------------------------------------------------------------------------
\* Rule tables
\* ------------------------------------------------------------------------

MQTT_TOPIC_EXCLUSION_CHARS_without_gt == <<"+", "#", "*", "$">>

MQTT_TOPIC_EXCLUSION_CHARS == <<"+", "#", "*", ">", "$">>

SYS_PREFIX == <<"$", "S", "Y", "S", "/">>
SHARE_PREFIX == <<"$", "s", "h", "a", "r", "e", "/">>
NOEXPORT_PREFIX == <<"$", "n", "o", "e", "x", "p", "o", "r", "t", "/">>

MaxTopicBytes == 250
MaxTopicLevels == 128

\* ------------------------------------------------------------------------
\* validate_mqtt_topic
\* ------------------------------------------------------------------------

\* The condition both functions test on a leading '$'.
illegal_leading_dollar(s) ==
    /\ startswith(s, <<"$">>)
    /\ ~ ( \/ startswith(s, SYS_PREFIX)
           \/ startswith(s, SHARE_PREFIX)
           \/ startswith(s, NOEXPORT_PREFIX) )

validate_length_too_long_off_by_one(topic) == encode_len(topic) >= MaxTopicBytes

validate_length_too_long(topic) == encode_len(topic) > MaxTopicBytes

validate_mqtt_topic(topic) ==
    IF \E k \in 1..Len(MQTT_TOPIC_EXCLUSION_CHARS) :
           contains(topic, MQTT_TOPIC_EXCLUSION_CHARS[k])
    THEN FALSE
    ELSE IF illegal_leading_dollar(topic) THEN FALSE
    ELSE IF validate_length_too_long(topic) THEN FALSE
    ELSE IF Len(split(topic, "/")) > MaxTopicLevels THEN FALSE
    ELSE TRUE

\* ------------------------------------------------------------------------
\* sanitize_mqtt_topic
\* ------------------------------------------------------------------------

sanitize_replace_first_only(s, ch) ==
    IF contains(s, ch)
    THEN LET i == CHOOSE j \in 1..Len(s) : s[j] = ch /\ \A h \in 1..(j - 1) : s[h] # ch
         IN  [s EXCEPT ![i] = "_"]
    ELSE s

sanitize_replace_delete(s, ch) == replace(s, <<ch>>, << >>)

sanitize_replace_keep_dollar(s, ch) ==
    IF ch = "$" THEN s ELSE replace(s, <<ch>>, <<"_">>)

\* One pass of the loop body: sanitized_name.replace(char, '_')
sanitize_replace(s, ch) == replace(s, <<ch>>, <<"_">>)

RECURSIVE sanitize_loop_from(_, _)
sanitize_loop_from(s, k) ==
    IF k > Len(MQTT_TOPIC_EXCLUSION_CHARS) THEN s
    ELSE sanitize_loop_from(sanitize_replace(s, MQTT_TOPIC_EXCLUSION_CHARS[k]), k + 1)

\* The string after the for loop over MQTT_TOPIC_EXCLUSION_CHARS.
sanitize_loop(topic) == sanitize_loop_from(topic, 1)

\* Whether the "Handle leading $" branch is taken.
sanitize_leading_taken(topic) == illegal_leading_dollar(sanitize_loop(topic))

sanitize_mqtt_topic(topic) ==
    LET sanitized_name == sanitize_loop(topic)
    IN  IF illegal_leading_dollar(sanitized_name)
        THEN <<"_">> \o SubSeq(sanitized_name, 2, Len(sanitized_name))
        ELSE sanitized_name

\* ------------------------------------------------------------------------
\* State
\* ------------------------------------------------------------------------

VARIABLES
    topic_name,        \* the str a caller passes to validate / sanitize
    calls,             \* which of the calls below have returned
    valid,             \* validate_mqtt_topic(topic_name)
    sanitized,         \* sanitize_mqtt_topic(topic_name)
    leading_rewritten, \* whether that call took its leading-'$' branch
    resanitized,       \* sanitize_mqtt_topic(sanitized)
    valid_sanitized,   \* validate_mqtt_topic(sanitized)
    csv_exists,        \* os.path.exists(self.csv_file_path)
    fieldnames,        \* the header line of the CSV file
    rows,              \* its data rows, as csv.DictReader yields them
    idx,               \* the next row the for loop takes
    pc,                \* where generate_telegraf_config is
    nodes,             \* the local list nodes
    _total_nodes_processed,
    _topics_sanitized,
    written            \* the topic = "..." values in the output file

topic_vars == <<topic_name, calls, valid, sanitized, leading_rewritten,
                resanitized, valid_sanitized>>

gen_vars == <<csv_exists, fieldnames, rows, idx, pc, nodes,
              _total_nodes_processed, _topics_sanitized, written>>

vars == <<topic_name, calls, valid, sanitized, leading_rewritten, resanitized,
          valid_sanitized, csv_exists, fieldnames, rows, idx, pc, nodes,
          _total_nodes_processed, _topics_sanitized, written>>

\* ------------------------------------------------------------------------
\* Topic strings handed to the two functions
\* ------------------------------------------------------------------------

Alphabet == {"#", ">", "$", "/", "a", EAcute}

Bodies == UNION { [1..n -> Alphabet] : n \in 0..MaxBody }

TELEGRAF_OPCUA == <<"t", "e", "l", "e", "g", "r", "a", "f", "/",
                    "o", "p", "c", "u", "a", "/">>

Heads == { << >>, SYS_PREFIX, SHARE_PREFIX, NOEXPORT_PREFIX,
           <<"$", "S", "Y", "S">>, TELEGRAF_OPCUA, <<"+", Euro, "*">> }

Repeat(c, n) == [i \in 1..n |-> c]

\* base, lengthened to sit exactly on or just over one of the two limits.
Fills == {"none", "bytes_at", "bytes_over", "levels_at", "levels_over"}

Fill(base, mode) ==
    CASE mode = "none" -> base
      [] mode = "bytes_at" ->
            base \o Repeat("a", MaxTopicBytes - encode_len(base))
      [] mode = "bytes_over" ->
            base \o Repeat("a", MaxTopicBytes + 1 - encode_len(base))
      [] mode = "levels_at" ->
            base \o Repeat("/", MaxTopicLevels - Len(split(base, "/")))
      [] mode = "levels_over" ->
            base \o Repeat("/", MaxTopicLevels + 1 - Len(split(base, "/")))

Topics == { Fill(h \o b, m) : h \in Heads, b \in Bodies, m \in Fills }

\* ------------------------------------------------------------------------
\* The two functions, called on one topic
\* ------------------------------------------------------------------------

GenIdle ==
    /\ csv_exists = FALSE
    /\ fieldnames = {}
    /\ rows = << >>
    /\ idx = 1
    /\ pc = "idle"
    /\ nodes = << >>
    /\ _total_nodes_processed = 0
    /\ _topics_sanitized = 0
    /\ written = << >>

InitTopic ==
    /\ topic_name \in Topics
    /\ calls = {}
    /\ valid = FALSE
    /\ sanitized = << >>
    /\ leading_rewritten = FALSE
    /\ resanitized = << >>
    /\ valid_sanitized = FALSE
    /\ GenIdle

CallValidate ==
    /\ "validate" \notin calls
    /\ valid' = validate_mqtt_topic(topic_name)
    /\ calls' = calls \cup {"validate"}
    /\ UNCHANGED <<topic_name, sanitized, leading_rewritten, resanitized,
                   valid_sanitized>>
    /\ UNCHANGED gen_vars

CallSanitize ==
    /\ "sanitize" \notin calls
    /\ sanitized' = sanitize_mqtt_topic(topic_name)
    /\ leading_rewritten' = sanitize_leading_taken(topic_name)
    /\ calls' = calls \cup {"sanitize"}
    /\ UNCHANGED <<topic_name, valid, resanitized, valid_sanitized>>
    /\ UNCHANGED gen_vars

CallSanitizeAgain ==
    /\ "sanitize" \in calls
    /\ "sanitize_again" \notin calls
    /\ resanitized' = sanitize_mqtt_topic(sanitized)
    /\ calls' = calls \cup {"sanitize_again"}
    /\ UNCHANGED <<topic_name, valid, sanitized, leading_rewritten, valid_sanitized>>
    /\ UNCHANGED gen_vars

CallValidateSanitized ==
    /\ "sanitize" \in calls
    /\ "validate_sanitized" \notin calls
    /\ valid_sanitized' = validate_mqtt_topic(sanitized)
    /\ calls' = calls \cup {"validate_sanitized"}
    /\ UNCHANGED <<topic_name, valid, sanitized, leading_rewritten, resanitized>>
    /\ UNCHANGED gen_vars

NextTopic ==
    \/ CallValidate
    \/ CallSanitize
    \/ CallSanitizeAgain
    \/ CallValidateSanitized

SpecTopic == InitTopic /\ [][NextTopic]_vars

\* ------------------------------------------------------------------------
\* CSV files given to generate_telegraf_config
\* ------------------------------------------------------------------------

\* The value csv.DictReader gives a column that a short row has no field for.
None == <<"<None>">>

NS2 == <<"n", "s", "=", "2", ";", "s", "=">>

NodeIds ==
    { NS2 \o <<"o", "k">>,
      NS2 \o <<"a", "#", "b">>,
      NS2 \o SYS_PREFIX \o <<"x">>,
      NS2 \o <<"s", "=", "x">>,
      NS2 \o Repeat("a", MaxTopicBytes + 1 - Len(TELEGRAF_OPCUA)),
      NS2 \o Repeat("/", MaxTopicLevels + 1 - Len(split(TELEGRAF_OPCUA, "/"))),
      <<"b", "a", "d">>,
      NS2 \o <<"a", ";", "b">> }

RawRows ==
    { [NodeId |-> n, CustomName |-> <<"n">>] : n \in NodeIds \cup {None} }
    \cup { [NodeId |-> NS2 \o <<"o", "k">>, CustomName |-> None] }

Headers == { {"NodeId", "CustomName"}, {"NodeId"}, {"CustomName"} }

CsvRows == UNION { [1..n -> RawRows] : n \in 0..MaxRows }

\* The dict DictReader yields for a data row: the header's columns only.
RowDict(raw) == [k \in fieldnames |-> raw[k]]

\* ------------------------------------------------------------------------
\* generate_telegraf_config
\* ------------------------------------------------------------------------

TopicIdle ==
    /\ topic_name = << >>
    /\ calls = {}
    /\ valid = FALSE
    /\ sanitized = << >>
    /\ leading_rewritten = FALSE
    /\ resanitized = << >>
    /\ valid_sanitized = FALSE

Init ==
    /\ TopicIdle
    /\ csv_exists \in BOOLEAN
    /\ fieldnames \in (IF csv_exists THEN Headers ELSE {{}})
    /\ rows \in (IF csv_exists THEN CsvRows ELSE {<< >>})
    /\ idx = 1
    /\ pc = "start"
    /\ nodes = << >>
    /\ _total_nodes_processed = 0
    /\ _topics_sanitized = 0
    /\ written = << >>

\* if not os.path.exists(self.csv_file_path): log the error and return
CsvNotFound ==
    /\ pc = "start"
    /\ ~csv_exists
    /\ pc' = "done"
    /\ UNCHANGED <<csv_exists, fieldnames, rows, idx, nodes,
                   _total_nodes_processed, _topics_sanitized, written>>
    /\ UNCHANGED topic_vars

\* open the file, build the DictReader
OpenCsv ==
    /\ pc = "start"
    /\ csv_exists
    /\ pc' = "reading"
    /\ UNCHANGED <<csv_exists, fieldnames, rows, idx, nodes,
                   _total_nodes_processed, _topics_sanitized, written>>
    /\ UNCHANGED topic_vars

has_required_columns(row) == \A key \in {"NodeId", "CustomName"} : key \in DOMAIN row

namespace_of(node_id_parts) == replace(node_id_parts[1], <<"n", "s", "=">>, << >>)

identifier_of(node_id_parts) == replace(node_id_parts[2], <<"s", "=">>, << >>)

\* f"telegraf/opcua/{identifier}"
candidate_topic(identifier) == TELEGRAF_OPCUA \o identifier

\* The topic the row ends with: the candidate, or the sanitizer's result.
final_topic(candidate) ==
    IF ~validate_mqtt_topic(candidate) THEN sanitize_mqtt_topic(candidate)
    ELSE candidate

topics_sanitized_after_every_row(n, candidate) == n + 1

\* self._topics_sanitized after the row: incremented inside the if.
topics_sanitized_after(n, candidate) ==
    IF ~validate_mqtt_topic(candidate) THEN n + 1 ELSE n

\* A row with both columns and a NodeId of two ';'-parts: a node is appended.
RowAccepted ==
    /\ pc = "reading"
    /\ idx <= Len(rows)
    /\ LET row == RowDict(rows[idx])
       IN  /\ has_required_columns(row)
           /\ row.NodeId # None
           /\ LET node_id_parts == split(row.NodeId, ";")
                  identifier == identifier_of(node_id_parts)
                  mqtt_topic == candidate_topic(identifier)
              IN  /\ Len(node_id_parts) = 2
                  /\ _topics_sanitized' = topics_sanitized_after(_topics_sanitized, mqtt_topic)
                  /\ nodes' = Append(nodes,
                         [ node_id |-> row.NodeId,
                           custom_name |-> row.CustomName,
                           namespace |-> namespace_of(node_id_parts),
                           identifier |-> identifier,
                           identifier_type |-> "s",
                           mqtt_topic |-> final_topic(mqtt_topic) ])
                  /\ _total_nodes_processed' = _total_nodes_processed + 1
    /\ idx' = idx + 1
    /\ UNCHANGED <<csv_exists, fieldnames, rows, pc, written>>
    /\ UNCHANGED topic_vars

\* len(node_id_parts) != 2: warning, continue
RowInvalidNodeId ==
    /\ pc = "reading"
    /\ idx <= Len(rows)
    /\ LET row == RowDict(rows[idx])
       IN  /\ has_required_columns(row)
           /\ row.NodeId # None
           /\ Len(split(row.NodeId, ";")) # 2
    /\ idx' = idx + 1
    /\ UNCHANGED <<csv_exists, fieldnames, rows, pc, nodes,
                   _total_nodes_processed, _topics_sanitized, written>>
    /\ UNCHANGED topic_vars

\* the else branch: "Row missing required columns"
RowMissingColumns ==
    /\ pc = "reading"
    /\ idx <= Len(rows)
    /\ ~has_required_columns(RowDict(rows[idx]))
    /\ idx' = idx + 1
    /\ UNCHANGED <<csv_exists, fieldnames, rows, pc, nodes,
                   _total_nodes_processed, _topics_sanitized, written>>
    /\ UNCHANGED topic_vars

\* row['NodeId'] is None: None.split raises AttributeError, which the
\* except clause around the loop catches: log the error and return.
RowRaises ==
    /\ pc = "reading"
    /\ idx <= Len(rows)
    /\ LET row == RowDict(rows[idx])
       IN  /\ has_required_columns(row)
           /\ row.NodeId = None
    /\ pc' = "done"
    /\ UNCHANGED <<csv_exists, fieldnames, rows, idx, nodes,
                   _total_nodes_processed, _topics_sanitized, written>>
    /\ UNCHANGED topic_vars

\* the reader is exhausted: the two summary lines, then the config is built
EndOfRows ==
    /\ pc = "reading"
    /\ idx > Len(rows)
    /\ pc' = "generating"
    /\ UNCHANGED <<csv_exists, fieldnames, rows, idx, nodes,
                   _total_nodes_processed, _topics_sanitized, written>>
    /\ UNCHANGED topic_vars

\* one [[outputs.mqtt]] stanza per node, written to the output file
WriteConfig ==
    /\ pc = "generating"
    /\ written' = [i \in 1..Len(nodes) |-> nodes[i].mqtt_topic]
    /\ pc' = "done"
    /\ UNCHANGED <<csv_exists, fieldnames, rows, idx, nodes,
                   _total_nodes_processed, _topics_sanitized>>
    /\ UNCHANGED topic_vars

\* opening or writing the output file raises: log the error
WriteConfigFails ==
    /\ pc = "generating"
    /\ pc' = "done"
    /\ UNCHANGED <<csv_exists, fieldnames, rows, idx, nodes,
                   _total_nodes_processed, _topics_sanitized, written>>
    /\ UNCHANGED topic_vars

Next ==
    \/ CsvNotFound
    \/ OpenCsv
    \/ RowAccepted
    \/ RowInvalidNodeId
    \/ RowMissingColumns
    \/ RowRaises
    \/ EndOfRows
    \/ WriteConfig
    \/ WriteConfigFails

Spec == Init /\ [][Next]_vars

\* ------------------------------------------------------------------------
\* Properties of validate_mqtt_topic and sanitize_mqtt_topic (SpecTopic)
\* ------------------------------------------------------------------------

\* The rules as the specification words them, stated on the string itself.
ExcludedChars == {"+", "#", "*", ">", "$"}

ReservedPrefixes == {SYS_PREFIX, SHARE_PREFIX, NOEXPORT_PREFIX}

NoExcludedChar(s) == \A i \in 1..Len(s) : s[i] \notin ExcludedChars

LeadingDollarOk(s) ==
    (Len(s) >= 1 /\ s[1] = "$") => \E p \in ReservedPrefixes : startswith(s, p)

ByteLength(s) ==
    Len(s) + Cardinality({i \in 1..Len(s) : s[i] = EAcute})
           + 2 * Cardinality({i \in 1..Len(s) : s[i] = Euro})

SegmentCount(s) == 1 + Cardinality({i \in 1..Len(s) : s[i] = "/"})

WithinLimits(s) == ByteLength(s) <= 250 /\ SegmentCount(s) <= 128

Underscored(s) == [i \in 1..Len(s) |-> IF s[i] \in ExcludedChars THEN "_" ELSE s[i]]

C2_ValidateAfterSanitize ==
    "validate_sanitized" \in calls => (valid_sanitized <=> WithinLimits(topic_name))

\* A topic with an excluded character, within the limits, valid once sanitized.
C2_Witness ==
    /\ "validate_sanitized" \in calls
    /\ valid_sanitized
    /\ ~NoExcludedChar(topic_name)

\* C3: sanitize_mqtt_topic is idempotent: sanitize(sanitize(s)) = sanitize(s).
C3_SanitizeIdempotent ==
    "sanitize_again" \in calls => resanitized = sanitized

\* The second call has returned on a topic the first call changed.
C3_Witness ==
    /\ "sanitize_again" \in calls
    /\ sanitized # topic_name

\* C4: a topic that starts with '$SYS/', '$share/' or '$noexport/' keeps that
\* prefix unchanged under sanitize_mqtt_topic.
C4_ReservedPrefixKept ==
    "sanitize" \in calls =>
        \A p \in ReservedPrefixes :
            startswith(topic_name, p) => startswith(sanitized, p)

\* C5: a topic that starts with a reserved prefix, has none of + # * > $ after
\* the prefix and is within the limits is accepted by validate_mqtt_topic.
C5_ReservedPrefixValid ==
    "validate" \in calls =>
        \A p \in ReservedPrefixes :
            ( /\ startswith(topic_name, p)
              /\ NoExcludedChar(SubSeq(topic_name, Len(p) + 1, Len(topic_name)))
              /\ WithinLimits(topic_name) ) => valid

\* C7: sanitize_mqtt_topic keeps the UTF-8 byte length and the number of
\* '/'-segments, and returns a string with no excluded character unchanged.
C7_SanitizeKeepsLengthAndDepth ==
    "sanitize" \in calls =>
        /\ ByteLength(sanitized) = ByteLength(topic_name)
        /\ SegmentCount(sanitized) = SegmentCount(topic_name)
        /\ NoExcludedChar(topic_name) => sanitized = topic_name

\* A topic over the byte limit that the sanitizer did rewrite.
C7_Witness ==
    /\ "sanitize" \in calls
    /\ ByteLength(topic_name) > 250
    /\ sanitized # topic_name

TopicLegal(s) == NoExcludedChar(s) /\ LeadingDollarOk(s) /\ WithinLimits(s)

SemicolonCount(s) == Cardinality({i \in 1..Len(s) : s[i] = ";"})

\* Row j of the file has both columns and a NodeId of exactly two ';'-parts.
RowIsAccepted(j) ==
    /\ {"NodeId", "CustomName"} \subseteq fieldnames
    /\ rows[j].NodeId # None
    /\ SemicolonCount(rows[j].NodeId) = 1

\* The candidate topic of an accepted row j.
RowCandidate(j) == TELEGRAF_OPCUA \o identifier_of(split(rows[j].NodeId, ";"))

\* Row j lacks a required column (the header has no such column, or the row
\* has no field for it), or its NodeId is not two ';'-parts.
RowIsMalformed(j) ==
    \/ ~({"NodeId", "CustomName"} \subseteq fieldnames)
    \/ rows[j].NodeId = None
    \/ rows[j].CustomName = None
    \/ SemicolonCount(rows[j].NodeId) # 1

\* C6: every mqtt_topic appended to the node list, and every topic written
\* to the output file, satisfies validate_mqtt_topic.
C6_EveryTopicLegal ==
    /\ \A i \in 1..Len(nodes) : validate_mqtt_topic(nodes[i].mqtt_topic)
    /\ \A i \in 1..Len(written) : validate_mqtt_topic(written[i])

\* C8: _topics_sanitized equals the number of accepted rows handled so far
\* whose candidate topic is not legal and is at most _total_nodes_processed;
\* a step adds exactly 1 to it when it handles such a row, and nothing
\* otherwise, so it never decreases.
C8_SanitizedCounter ==
    /\ [] ( /\ _topics_sanitized =
                  Cardinality({ j \in 1..(idx - 1) :
                                  RowIsAccepted(j) /\ ~TopicLegal(RowCandidate(j)) })
            /\ _topics_sanitized <= _total_nodes_processed )
    /\ [][ _topics_sanitized' =
             IF /\ pc = "reading"
                /\ idx <= Len(rows)
                /\ RowIsAccepted(idx)
                /\ ~TopicLegal(RowCandidate(idx))
             THEN _topics_sanitized + 1
             ELSE _topics_sanitized ]_vars

\* The run has handled rows that needed the sanitizer and rows that did not.
C8_Witness ==
    /\ pc = "done"
    /\ _topics_sanitized >= 1
    /\ _topics_sanitized < _total_nodes_processed

\* C9: handling a malformed row appends no node, leaves both counters alone
\* and goes on to the next row; a missing CSV file ends the run with no node
\* processed and nothing written.
C9_PerRecordErrorsRecoverable ==
    [][ /\ ( /\ pc = "reading"
             /\ idx <= Len(rows)
             /\ RowIsMalformed(idx) )
           => ( /\ nodes' = nodes
                /\ _total_nodes_processed' = _total_nodes_processed
                /\ _topics_sanitized' = _topics_sanitized
                /\ idx' = idx + 1
                /\ pc' = "reading" )
        /\ ( pc = "start" /\ ~csv_exists )
           => ( /\ pc' = "done"
                /\ nodes' = << >>
                /\ _total_nodes_processed' = 0
                /\ written' = << >> ) ]_vars

====
